---- MODULE Spec2Model ----
(***************************************************************************)
(* A model of the ytnef Rust wrapper: the three decode entry points of     *)
(* TNEFFile, the status -> TNEFError conversion, the byte source adapter   *)
(* tnef_io_read, the variable-length field accessors of utils.rs, the      *)
(* collection accessors attachments() / mapi_properties() /                *)
(* named_properties(), and the ownership of the native parse structure.    *)
(*                                                                         *)
(* The native parser (ytnef_sys) is not among the sources modelled.  Its    *)
(* calls are modelled at their call sites: the status it returns and what  *)
(* it leaves allocated are nondeterministic choices.  Where a property     *)
(* depends on what the parser does with the bytes it reads, the parser is  *)
(* modelled from the specification.                                        *)
(***************************************************************************)
EXTENDS Integers, Sequences, FiniteSets, TLC

VARIABLES
    \* ---- decode / ownership lifecycle (tnef.rs) ----
    calls,        \* number of decode calls made so far
    last,         \* what the most recent decode call returned
    returned,     \* per call: "none" | "Ok" | "Err"
    docState,     \* per call: the TNEFFile value ("none" | "live" | "dropped")
    readerBox,    \* per call: the Box<ReaderWrapper> behind io.data
    nativeAlloc,  \* per call: heap storage owned by the native TNEFStruct
    freeCount,    \* per call: how many times TNEFFree ran on that struct
    values,       \* TNEFAttachment / MAPIProperty values handed to the caller
    lastRead,     \* the most recent payload read made by an accessor
    \* ---- status conversion (tnef.rs, impl From<i32>) ----
    code,         \* an i32 status
    converted,    \* the TNEFError it was converted to ("none" before)
    back,         \* the TNEFError its discriminant converts to ("none" before)
    \* ---- variable-length field accessors (utils.rs) ----
    field,        \* a native variableLength: [size, data]
    vecOut,       \* what vec_from_varlen returned for it
    strOut,       \* what string_from_varlen returned for it
    \* ---- MAPIProperty::named_properties (mapi.rs) ----
    prop,         \* a native MAPIProperty: [namedproperty, propnames]
    namesOut,     \* what named_properties returned for it
    \* ---- TNEFFile::attachments (tnef.rs) ----
    tnef,         \* the native struct: [starting_attach, heap]
    attachOut,    \* what attachments() returned ([called, val])
    \* ---- TNEFFile::mapi_properties (tnef.rs) ----
    propList,     \* the native MAPIProps: [count, properties]
    propsOut,     \* what mapi_properties() returned ([called, val, reads])
    \* ---- the byte source adapter tnef_io_read (tnef.rs) ----
    srcLeft,      \* bytes the underlying reader has not delivered yet
    ioData,       \* io.data: the address stored in the I/O struct
    boxLive,      \* whether the ReaderWrapper allocation at ReaderAddr is live
    rd,           \* the latest tnef_io_read call: request, outcome, dest, return
    \* ---- the three construction paths on the same bytes ----
    input,        \* the bytes given to all three paths
    pathOut       \* per path: what decode returned ([done, tag, kind, doc])

lifeVars == <<calls, last, returned, docState, readerBox, nativeAlloc, freeCount, values, lastRead>>
errVars  == <<code, converted, back>>
varlenVars == <<field, vecOut, strOut>>
namedVars  == <<prop, namesOut>>
attachVars == <<tnef, attachOut>>
propsVars  == <<propList, propsOut>>
readVars   == <<srcLeft, ioData, boxLive, rd>>
pathVars   == <<input, pathOut>>
vars     == <<lifeVars, errVars, varlenVars, namedVars, attachVars, propsVars, readVars,
             pathVars>>

-----------------------------------------------------------------------------
(* 32-bit integers *)

\* the range of i32 / c_int
MaxI32 == 2147483647
MinI32 == -MaxI32 - 1

-----------------------------------------------------------------------------
(* TNEFError and impl From<i32> for TNEFError *)

Kinds == {"CannotInitData", "NotTnefStream", "ErrorReadingData", "NoKey",
          "BadChecksum", "ErrorInHandler", "UnknownProperty", "IncorrectSetup",
          "UnknownError"}

\* the enum's explicit discriminants
Discriminant(kind) ==
    CASE kind = "CannotInitData"   -> -1
      [] kind = "NotTnefStream"    -> -2
      [] kind = "ErrorReadingData" -> -3
      [] kind = "NoKey"            -> -4
      [] kind = "BadChecksum"      -> -5
      [] kind = "ErrorInHandler"   -> -6
      [] kind = "UnknownProperty"  -> -7
      [] kind = "IncorrectSetup"   -> -8
      [] kind = "UnknownError"     -> -9

\* a conversion that forgets the last named arm
TNEFErrorFrom_NoSetupArm(other) ==
    CASE other = -1 -> "CannotInitData"
      [] other = -2 -> "NotTnefStream"
      [] other = -3 -> "ErrorReadingData"
      [] other = -4 -> "NoKey"
      [] other = -5 -> "BadChecksum"
      [] other = -6 -> "ErrorInHandler"
      [] other = -7 -> "UnknownProperty"
      [] OTHER      -> "UnknownError"

TNEFErrorFrom(other) ==
    CASE other = -1 -> "CannotInitData"
      [] other = -2 -> "NotTnefStream"
      [] other = -3 -> "ErrorReadingData"
      [] other = -4 -> "NoKey"
      [] other = -5 -> "BadChecksum"
      [] other = -6 -> "ErrorInHandler"
      [] other = -7 -> "UnknownProperty"
      [] other = -8 -> "IncorrectSetup"
      [] OTHER      -> "UnknownError"

\* statuses tried by the conversion: a window around 0, both ends of i32 and
\* their neighbours
CodeSpan == 60
Codes == (-CodeSpan .. CodeSpan) \cup {MinI32, MinI32 + 1, MaxI32 - 1, MaxI32}

ErrIdle ==
    /\ code = 0
    /\ converted = "none"
    /\ back = "none"

ErrInit ==
    /\ code \in Codes
    /\ converted = "none"
    /\ back = "none"

\* `status.into()`
Convert ==
    /\ converted = "none"
    /\ converted' = TNEFErrorFrom(code)
    /\ UNCHANGED <<code, back, lifeVars, varlenVars, namedVars, attachVars, propsVars, readVars, pathVars>>

\* converting the discriminant of the kind just obtained (`kind as i32`).into()
ConvertBack ==
    /\ converted \in Kinds
    /\ back = "none"
    /\ back' = TNEFErrorFrom(Discriminant(converted))
    /\ UNCHANGED <<code, converted, lifeVars, varlenVars, namedVars, attachVars, propsVars, readVars, pathVars>>

-----------------------------------------------------------------------------
(* Decode entry points and ownership *)

MaxDecodes == 2
MaxValues  == 2
StatusSpan == 9

CallIds  == 1 .. MaxDecodes
ValueIds == 1 .. MaxValues

\* statuses the native parser is let return in the lifecycle model
Statuses == (-StatusSpan .. 1) \cup {MinI32, MaxI32}

NoCall == [call |-> 0, path |-> "none", parsed |-> FALSE, status |-> 0,
           tag |-> "none", kind |-> "none"]
NoValue == [state |-> "none", kind |-> "none", ref |-> 0]
NoRead == [by |-> "none", buf |-> 0, freed |-> FALSE]

LifeInit ==
    /\ calls = 0
    /\ last = NoCall
    /\ returned = [c \in CallIds |-> "none"]
    /\ docState = [c \in CallIds |-> "none"]
    /\ readerBox = [c \in CallIds |-> "none"]
    /\ nativeAlloc = [c \in CallIds |-> "none"]
    /\ freeCount = [c \in CallIds |-> 0]
    /\ values = [v \in ValueIds |-> NoValue]
    /\ lastRead = NoRead

\* `if result <= 0`
IsFailure_ZeroFails(result) == result <= 0

\* `if result < 0`
IsFailure(result) == result < 0

\* The tail shared by the three entry points: `if result < 0 { Err(result.into()) }
\* else { Ok(Self { inner: inner.assume_init() }) }`.  On the Err arm `inner`
\* (a MaybeUninit) goes out of scope without TNEFFree; what the native parser
\* left allocated in it (`keeps`) stays allocated.
Finish(c, path, status, keeps) ==
    IF IsFailure(status)
    THEN /\ last' = [call |-> c, path |-> path, parsed |-> TRUE, status |-> status,
                     tag |-> "Err", kind |-> TNEFErrorFrom(status)]
         /\ returned' = [returned EXCEPT ![c] = "Err"]
         /\ docState' = docState
         /\ nativeAlloc' = [nativeAlloc EXCEPT ![c] = IF keeps THEN "live" ELSE "none"]
    ELSE /\ last' = [call |-> c, path |-> path, parsed |-> TRUE, status |-> status,
                     tag |-> "Ok", kind |-> "none"]
         /\ returned' = [returned EXCEPT ![c] = "Ok"]
         /\ docState' = [docState EXCEPT ![c] = "live"]
         /\ nativeAlloc' = [nativeAlloc EXCEPT ![c] = "live"]

\* TNEFFile::new(reader)
New ==
    /\ calls < MaxDecodes
    /\ \E status \in Statuses, keeps \in BOOLEAN :
         /\ calls' = calls + 1
         \* Box::into_raw(reader_wrapper) is stored in io.data; tnef_io_read takes
         \* it and puts it back; tnef_io_close and new() never reclaim it
         /\ readerBox' = [readerBox EXCEPT ![calls + 1] = "installed"]
         /\ Finish(calls + 1, "new", status, keeps)
    /\ UNCHANGED <<freeCount, values, lastRead, errVars, varlenVars, namedVars, attachVars, propsVars, readVars, pathVars>>

\* TNEFFile::from_file(path)
FromFile ==
    /\ calls < MaxDecodes
    /\ calls' = calls + 1
    /\ \E nulInPath \in BOOLEAN, status \in Statuses, keeps \in BOOLEAN :
         IF nulInPath
         THEN \* CString::new(path) fails: return before the parser is called
              /\ last' = [call |-> calls + 1, path |-> "from_file", parsed |-> FALSE,
                          status |-> 0, tag |-> "Err", kind |-> "CannotInitData"]
              /\ returned' = [returned EXCEPT ![calls + 1] = "Err"]
              /\ UNCHANGED <<docState, nativeAlloc>>
         ELSE Finish(calls + 1, "from_file", status, keeps)
    /\ UNCHANGED <<readerBox, freeCount, values, lastRead, errVars, varlenVars, namedVars, attachVars, propsVars, readVars, pathVars>>

\* TNEFFile::from_buffer(buffer)
FromBuffer ==
    /\ calls < MaxDecodes
    /\ calls' = calls + 1
    /\ \E status \in Statuses, keeps \in BOOLEAN :
         Finish(calls + 1, "from_buffer", status, keeps)
    /\ UNCHANGED <<readerBox, freeCount, values, lastRead, errVars, varlenVars, namedVars, attachVars, propsVars, readVars, pathVars>>

\* What a payload read through a pointer into call c's native storage finds.
ReadOf(who, c) == [by |-> who, buf |-> c, freed |-> nativeAlloc[c] = "freed"]

\* A Document accessor over a variable-length field (from, subject, body, ...):
\* needs &self, so the Document is live.
DocAccessor(d) ==
    /\ docState[d] = "live"
    /\ lastRead' = ReadOf("document", d)
    /\ UNCHANGED <<calls, last, returned, docState, readerBox, nativeAlloc, freeCount, values, errVars, varlenVars, namedVars, attachVars, propsVars, readVars, pathVars>>

\* TNEFAttachment { inner: self.inner.starting_attach } / raw.read(): a bitwise
\* copy of the native record, data pointers of its variable-length fields
\* included.  ref is the call whose native storage those pointers address
\* (0 when every field of the record has size < 1).
CopyOut(kind, d, hasPayload) ==
    [state |-> "live", kind |-> kind, ref |-> IF hasPayload THEN d ELSE 0]

FreeSlot(v) == values[v].state = "none" /\ \A w \in ValueIds : w < v => values[w].state # "none"

\* TNEFFile::attachments(): one returned TNEFAttachment is tracked
Attachments(d) ==
    /\ docState[d] = "live"
    /\ \E v \in ValueIds, hasPayload \in BOOLEAN :
         /\ FreeSlot(v)
         /\ values' = [values EXCEPT ![v] = CopyOut("attachment", d, hasPayload)]
    /\ UNCHANGED <<calls, last, returned, docState, readerBox, nativeAlloc, freeCount, lastRead, errVars, varlenVars, namedVars, attachVars, propsVars, readVars, pathVars>>

\* TNEFFile::mapi_properties(): one returned MAPIProperty is tracked
MapiProperties(d) ==
    /\ docState[d] = "live"
    /\ \E v \in ValueIds, hasPayload \in BOOLEAN :
         /\ FreeSlot(v)
         /\ values' = [values EXCEPT ![v] = CopyOut("property", d, hasPayload)]
    /\ UNCHANGED <<calls, last, returned, docState, readerBox, nativeAlloc, freeCount, lastRead, errVars, varlenVars, namedVars, attachVars, propsVars, readVars, pathVars>>

\* title() / file_data() / icon_data() / data() / named_properties() on a
\* returned value: the value has no lifetime tying it to the Document
ValueAccessor(v) ==
    /\ values[v].state = "live"
    /\ values[v].ref # 0
    /\ lastRead' = ReadOf(values[v].kind, values[v].ref)
    /\ UNCHANGED <<calls, last, returned, docState, readerBox, nativeAlloc, freeCount, values, errVars, varlenVars, namedVars, attachVars, propsVars, readVars, pathVars>>

\* impl Drop for TNEFFile: TNEFFree(&mut self.inner)
DropDocument(d) ==
    /\ docState[d] = "live"
    /\ docState' = [docState EXCEPT ![d] = "dropped"]
    /\ nativeAlloc' = [nativeAlloc EXCEPT ![d] = "freed"]
    /\ freeCount' = [freeCount EXCEPT ![d] = @ + 1]
    /\ UNCHANGED <<calls, last, returned, readerBox, values, lastRead, errVars, varlenVars, namedVars, attachVars, propsVars, readVars, pathVars>>

\* TNEFAttachment and MAPIProperty have no Drop impl: dropping one frees nothing
DropValue(v) ==
    /\ values[v].state = "live"
    /\ values' = [values EXCEPT ![v].state = "dropped"]
    /\ UNCHANGED <<calls, last, returned, docState, readerBox, nativeAlloc, freeCount, lastRead, errVars, varlenVars, namedVars, attachVars, propsVars, readVars, pathVars>>

-----------------------------------------------------------------------------
(* Variable-length fields: utils.rs *)

MaxBuf == 4

\* representative byte values: ASCII, a continuation byte, lead bytes of the
\* 2-, 3- and 4-byte forms, the lead byte whose second byte is range-
\* restricted (surrogates), and a byte valid nowhere
Bytes == {65, 169, 195, 226, 237, 240, 255}

Buffers == UNION {[1 .. n -> Bytes] : n \in 0 .. MaxBuf}

None == [called |-> TRUE, some |-> FALSE, val |-> <<>>]
Some(v) == [called |-> TRUE, some |-> TRUE, val |-> v]
NotCalled == [called |-> FALSE, some |-> FALSE, val |-> <<>>]

IsCont(b) == b >= 128 /\ b <= 191

\* String::from_utf8's validation: the well-formed byte sequences of the
\* Unicode standard, decided from the lead byte and the ranges of the bytes
\* that follow it
RECURSIVE ValidUtf8(_)
ValidUtf8(b) ==
    IF Len(b) = 0 THEN TRUE
    ELSE LET n == Len(b)
             b1 == b[1]
             Rest(k) == SubSeq(b, k + 1, n)
         IN  IF b1 < 128 THEN ValidUtf8(Rest(1))
             ELSE IF b1 >= 194 /\ b1 <= 223
                  THEN n >= 2 /\ IsCont(b[2]) /\ ValidUtf8(Rest(2))
             ELSE IF b1 >= 224 /\ b1 <= 239
                  THEN /\ n >= 3
                       /\ IsCont(b[2]) /\ IsCont(b[3])
                       /\ (b1 = 224 => b[2] >= 160)
                       /\ (b1 = 237 => b[2] <= 159)
                       /\ ValidUtf8(Rest(3))
             ELSE IF b1 >= 240 /\ b1 <= 244
                  THEN /\ n >= 4
                       /\ IsCont(b[2]) /\ IsCont(b[3]) /\ IsCont(b[4])
                       /\ (b1 = 240 => b[2] >= 144)
                       /\ (b1 = 244 => b[2] <= 143)
                       /\ ValidUtf8(Rest(4))
             ELSE FALSE

\* `if attr.size < 0`: a zero-size field comes back present and empty
vec_from_varlen_EmptyPresent(attr) ==
    IF attr.size < 0 THEN None
    ELSE Some(SubSeq(attr.data, 1, attr.size))

\* vec_from_varlen: None when size < 1, else a copy of `size` bytes at data
vec_from_varlen(attr) ==
    IF attr.size < 1 THEN None
    ELSE Some(SubSeq(attr.data, 1, attr.size))

\* string_from_varlen: String::from_utf8(vec_from_varlen(attr)?).ok()
string_from_varlen(attr) ==
    LET v == vec_from_varlen(attr)
    IN  IF ~v.some THEN None
        ELSE IF ValidUtf8(v.val) THEN Some(v.val) ELSE None

\* a variableLength as the native parser leaves it: size is a C int; when
\* size >= 1 data addresses at least `size` bytes
Fields ==
    {[size |-> sz, data |-> d] : sz \in -1 .. MaxBuf, d \in Buffers}

WellFormedField(f) == f.size <= Len(f.data)

VarlenIdle ==
    /\ field = [size |-> 0, data |-> <<>>]
    /\ vecOut = NotCalled
    /\ strOut = NotCalled

VarlenInit ==
    /\ field \in {f \in Fields : WellFormedField(f)}
    /\ vecOut = NotCalled
    /\ strOut = NotCalled

\* a byte accessor (code_page, file_data, icon_data, data)
VecFromVarlen ==
    /\ ~vecOut.called
    /\ vecOut' = vec_from_varlen(field)
    /\ UNCHANGED <<field, strOut, lifeVars, errVars, namedVars, attachVars, propsVars, readVars, pathVars>>

\* a text accessor (from, subject, body, title, ...)
StringFromVarlen ==
    /\ ~strOut.called
    /\ strOut' = string_from_varlen(field)
    /\ UNCHANGED <<field, vecOut, lifeVars, errVars, namedVars, attachVars, propsVars, readVars, pathVars>>

-----------------------------------------------------------------------------
(* MAPIProperty::named_properties: mapi.rs *)

MaxNames == 2

\* entries of a propnames array: absent, negative size, ASCII, a 2-byte
\* character, a buffer longer than its size, ill-formed bytes, a truncated
\* character
NameFields ==
    { [size |-> 0,  data |-> <<>>],
      [size |-> -1, data |-> <<65>>],
      [size |-> 1,  data |-> <<65>>],
      [size |-> 2,  data |-> <<195, 169>>],
      [size |-> 1,  data |-> <<65, 255>>],
      [size |-> 1,  data |-> <<255>>],
      [size |-> 1,  data |-> <<195, 169>>] }

Props ==
    {[namedproperty |-> c, propnames |-> names] :
        c \in -1 .. MaxNames,
        names \in UNION {[1 .. n -> NameFields] : n \in 0 .. MaxNames}}

\* the native side allocates at least `namedproperty` entries
WellFormedProp(p) == p.namedproperty <= Len(p.propnames)

\* `if let Some(name) = string_from_varlen(data) { output.push(name) }`:
\* an entry that fails is skipped
named_properties_SkipBad(p) ==
    LET count == p.namedproperty
        outs == [i \in 1 .. count |-> string_from_varlen(p.propnames[i])]
        good == SelectSeq([i \in 1 .. count |-> outs[i]], LAMBDA o : o.some)
    IN  IF count < 1 THEN None
        ELSE Some([i \in 1 .. Len(good) |-> good[i].val])

\* named_properties: None when the count is < 1; otherwise string_from_varlen
\* of entries 0 .. count-1 in order, `?` returning None at the first failure
named_properties(p) ==
    LET count == p.namedproperty
        outs == [i \in 1 .. count |-> string_from_varlen(p.propnames[i])]
    IN  IF count < 1 THEN None
        ELSE IF \E i \in 1 .. count : ~outs[i].some THEN None
        ELSE Some([i \in 1 .. count |-> outs[i].val])

NamedIdle ==
    /\ prop = [namedproperty |-> 0, propnames |-> <<>>]
    /\ namesOut = NotCalled

NamedInit ==
    /\ prop \in {p \in Props : WellFormedProp(p)}
    /\ namesOut = NotCalled

NamedProperties ==
    /\ ~namesOut.called
    /\ namesOut' = named_properties(prop)
    /\ UNCHANGED <<prop, lifeVars, errVars, varlenVars, attachVars, propsVars, readVars, pathVars>>

-----------------------------------------------------------------------------
(* TNEFFile::attachments: tnef.rs *)

MaxNodes == 3

\* addresses of heap Attachment records; 0 is the null pointer
Addrs == 1 .. MaxNodes
Titles == {"a", "b"}

Attachment == [title : Titles, next : Addrs \cup {0}]

\* the address reached from `from` after n hops of the forward link
RECURSIVE Hop(_, _, _)
Hop(heap, from, n) ==
    IF n = 0 \/ from = 0 THEN from ELSE Hop(heap, heap[from].next, n - 1)

\* the native parser appends each new record at the tail of the chain, so the
\* chain hanging off starting_attach ends in a null link
Terminates(t) == Hop(t.heap, t.starting_attach.next, MaxNodes) = 0

Tnefs ==
    {t \in [starting_attach : Attachment, heap : [Addrs -> Attachment]] : Terminates(t)}

\* `while !curr_attach.is_null() { attach = from_raw(curr); curr = attach.inner.next;
\* output.push(attach) }`
RECURSIVE WalkAttach(_, _, _)
WalkAttach(heap, curr_attach, output) ==
    IF curr_attach = 0 THEN output
    ELSE LET attach == heap[curr_attach]
         IN  WalkAttach(heap, attach.next, Append(output, attach))

\* starting_attach treated as a list head that carries no data
attachments_SkipStart(t) ==
    WalkAttach(t.heap, t.starting_attach.next, <<>>)

\* attachments(): push a copy of starting_attach, then walk its next link
attachments(t) ==
    WalkAttach(t.heap, t.starting_attach.next, <<t.starting_attach>>)

AttachIdle ==
    /\ tnef = [starting_attach |-> [title |-> "a", next |-> 0],
               heap |-> [a \in Addrs |-> [title |-> "a", next |-> 0]]]
    /\ attachOut = [called |-> FALSE, val |-> <<>>]

AttachInit ==
    /\ tnef \in Tnefs
    /\ attachOut = [called |-> FALSE, val |-> <<>>]

AttachmentsCall ==
    /\ ~attachOut.called
    /\ attachOut' = [called |-> TRUE, val |-> attachments(tnef)]
    /\ UNCHANGED <<tnef, lifeVars, errVars, varlenVars, namedVars, propsVars, readVars, pathVars>>

-----------------------------------------------------------------------------
(* TNEFFile::mapi_properties: tnef.rs *)

MaxProps == 3

\* property records; 0 is an all-zero record, what a terminator would look like
PropRecords == 0 .. 2

PropLists ==
    {[count |-> c, properties |-> arr] :
        c \in 0 .. MaxProps,
        arr \in UNION {[1 .. n -> PropRecords] : n \in 0 .. MaxProps}}

\* the native side allocates `count` records (the array may be larger)
WellFormedList(l) == l.count <= Len(l.properties)

\* `for i in 0..count { output.push(from_raw(properties.offset(i))) }`:
\* i counts the records read so far
RECURSIVE ReadProps(_, _, _)
ReadProps(l, i, acc) ==
    IF i >= l.count THEN acc
    ELSE ReadProps(l, i + 1,
                   [val |-> Append(acc.val, l.properties[i + 1]),
                    reads |-> Append(acc.reads, i)])

\* a loop that also stops at an all-zero record
RECURSIVE ReadPropsToZero(_, _, _)
ReadPropsToZero(l, i, acc) ==
    IF i >= l.count \/ l.properties[i + 1] = 0 THEN acc
    ELSE ReadPropsToZero(l, i + 1,
                         [val |-> Append(acc.val, l.properties[i + 1]),
                          reads |-> Append(acc.reads, i)])

mapi_properties_StopAtZero(l) == ReadPropsToZero(l, 0, [val |-> <<>>, reads |-> <<>>])

\* mapi_properties(): val is the returned Vec, reads the array offsets read
mapi_properties(l) == ReadProps(l, 0, [val |-> <<>>, reads |-> <<>>])

PropsIdle ==
    /\ propList = [count |-> 0, properties |-> <<>>]
    /\ propsOut = [called |-> FALSE, val |-> <<>>, reads |-> <<>>]

PropsInit ==
    /\ propList \in {l \in PropLists : WellFormedList(l)}
    /\ propsOut = [called |-> FALSE, val |-> <<>>, reads |-> <<>>]

MapiPropertiesCall ==
    /\ ~propsOut.called
    /\ LET r == mapi_properties(propList)
       IN  propsOut' = [called |-> TRUE, val |-> r.val, reads |-> r.reads]
    /\ UNCHANGED <<propList, lifeVars, errVars, varlenVars, namedVars, attachVars, readVars, pathVars>>

-----------------------------------------------------------------------------
(* The byte source adapter: tnef_io_read, tnef.rs *)

MaxSrc   == 3
MaxCount == 3
MaxReads == 3

\* the address Box::into_raw returned in TNEFFile::new; 0 is null
ReaderAddr == 1

\* element sizes the parser asks for: sizeof BYTE, WORD, DWORD
ElemSizes == {1, 2, 4}

\* source bytes are non-zero, so the zero fill of the buffer shows
SrcBytes == {1, 2}
Sources == UNION {[1 .. n -> SrcBytes] : n \in 0 .. MaxSrc}

Min(a, b) == IF a < b THEN a ELSE b

\* What reader.inner.read(&mut buffer) may return (std::io::Read): Ok(n) with
\* n bytes written at the front of the buffer, n no more than the buffer or
\* what is left -- possibly fewer -- and 0 only at end-of-data or for an
\* empty buffer; or Err.
ReadOutcomes(src, buflen) ==
    {[ok |-> TRUE, n |-> k] :
        k \in IF buflen = 0 \/ Len(src) = 0 THEN {0} ELSE 1 .. Min(buflen, Len(src))}
    \cup {[ok |-> FALSE, n |-> 0]}

\* `let buffer_size: usize = (size * count) as usize;`
BufferSize(size, count) == size * count

\* `Err(_) => 0`: a failed read reported as end-of-data
BytesRead_ErrIsZero(outcome) == IF outcome.ok THEN outcome.n ELSE 0

\* `match reader.inner.read(&mut buffer) { Ok(n) => n as i32, Err(_) => -1 }`
BytesRead(outcome) == IF outcome.ok THEN outcome.n ELSE -1

\* `vec![0; buffer_size]` after the read: n source bytes, then the zero fill
BufferAfter(src, buffer_size, outcome) ==
    [i \in 1 .. buffer_size |-> IF i <= outcome.n THEN src[i] ELSE 0]

\* `(*io).data = Box::into_raw(reader)`: the box taken by Box::from_raw at
\* the top goes back as the same address and is not dropped
Reinstall(addr) == [data |-> addr, live |-> TRUE]

\* tnef_io_read(io, size, count, dest) with the read's outcome chosen:
\* the value returned, the bytes copied to dest, the source afterwards, io.data
tnef_io_read(src, data, size, count, outcome) ==
    LET buffer_size == BufferSize(size, count)
        buffer == BufferAfter(src, buffer_size, outcome)
        io == Reinstall(data)
    IN  [ret  |-> BytesRead(outcome),
         dest |-> buffer,       \* buffer.as_ptr().copy_to(dest, buffer_size)
         left |-> SubSeq(src, outcome.n + 1, Len(src)),
         data |-> io.data,
         live |-> io.live]

NoRd == [calls |-> 0, failed |-> 0, size |-> 0, count |-> 0, ok |-> TRUE, got |-> <<>>,
         dest |-> <<>>, ret |-> 0]

ReadIdle ==
    /\ srcLeft = <<>>
    /\ ioData = 0
    /\ boxLive = FALSE
    /\ rd = NoRd

\* after TNEFFile::new has installed the boxed reader
ReadInit ==
    /\ srcLeft \in Sources
    /\ ioData = ReaderAddr
    /\ boxLive = TRUE
    /\ rd = NoRd

\* the native parser calls ReadProc
IoRead ==
    /\ rd.calls < MaxReads
    /\ boxLive /\ ioData = ReaderAddr
    /\ \E size \in ElemSizes, count \in 0 .. MaxCount :
       \E outcome \in ReadOutcomes(srcLeft, BufferSize(size, count)) :
         LET r == tnef_io_read(srcLeft, ioData, size, count, outcome)
         IN  /\ rd' = [calls |-> rd.calls + 1,
                       failed |-> rd.failed + (IF outcome.ok THEN 0 ELSE 1),
                       size |-> size, count |-> count,
                       ok |-> outcome.ok, got |-> SubSeq(srcLeft, 1, outcome.n),
                       dest |-> r.dest, ret |-> r.ret]
             /\ srcLeft' = r.left
             /\ ioData' = r.data
             /\ boxLive' = r.live
    /\ UNCHANGED <<lifeVars, errVars, varlenVars, namedVars, attachVars, propsVars, pathVars>>

-----------------------------------------------------------------------------
(* The three construction paths.  The parser behind TNEFParse,             *)
(* TNEFParseFile and TNEFParseMemory is outside src/; it is modelled here  *)
(* from the specification (sections 4.1, 4.2), reduced to a signature      *)
(* followed by length-prefixed blocks.                                     *)

MaxBlocks  == 2
MaxPayload == 2
MaxChunk   == 2

SigLen == 2
Signature == <<1, 2>>

PayloadBytes == {1, 2}

Blocks ==
    UNION {{<<n>> \o pl : pl \in [1 .. n -> PayloadBytes]} : n \in 0 .. MaxPayload}

RECURSIVE BlockRuns(_)
BlockRuns(k) ==
    IF k = 0 THEN {<<>>}
    ELSE BlockRuns(k - 1) \cup {b \o r : b \in Blocks, r \in BlockRuns(k - 1)}

\* valid streams: the signature, then whole blocks
ValidStreams == {Signature \o r : r \in BlockRuns(MaxBlocks)}

\* The adapter installed by TNEFFile::new, over a reader that never fails but
\* hands over at most `chunk` bytes per read call.
StreamRead(chunk, src, size, count) ==
    LET want == BufferSize(size, count)
        outcome == [ok |-> TRUE, n |-> Min(chunk, Min(want, Len(src)))]
    IN  tnef_io_read(src, ReaderAddr, size, count, outcome)

\* The parser's own file and memory readers: all the bytes asked for, or
\* what is left of the data.
NativeRead(src, size, count) ==
    LET k == Min(size * count, Len(src))
    IN  [ret |-> k, dest |-> SubSeq(src, 1, k), left |-> SubSeq(src, k + 1, Len(src))]

ReadProc(chunk, src, size, count) ==
    IF chunk = 0 THEN NativeRead(src, size, count)
    ELSE StreamRead(chunk, src, size, count)

\* 4.2 step 4-5: blocks until the source is exhausted; a read that comes
\* back short of the block's payload is ErrorReadingData
RECURSIVE ParseBlocks(_, _, _)
ParseBlocks(chunk, src, doc) ==
    LET h == ReadProc(chunk, src, 1, 1)
    IN  IF h.ret < 0 THEN [status |-> -3, doc |-> <<>>]
        ELSE IF h.ret = 0 THEN [status |-> 0, doc |-> doc]
        ELSE LET len == h.dest[1]
                 pl == ReadProc(chunk, h.left, 1, len)
             IN  IF pl.ret < len THEN [status |-> -3, doc |-> <<>>]
                 ELSE ParseBlocks(chunk, pl.left, Append(doc, pl.dest))

\* 4.2 steps 2-5; chunk = 0 stands for the parser's own file / memory reader
TNEFParse(chunk, bytes) ==
    LET sig == ReadProc(chunk, bytes, SigLen, 1)
    IN  IF sig.ret < SigLen THEN [status |-> -3, doc |-> <<>>]
        ELSE IF sig.dest # Signature THEN [status |-> -2, doc |-> <<>>]
        ELSE ParseBlocks(chunk, sig.left, <<>>)

\* `if result < 0 { Err(result.into()) } else { Ok(Self { inner }) }`
Wrap(r) ==
    IF IsFailure(r.status)
    THEN [done |-> TRUE, tag |-> "Err", kind |-> TNEFErrorFrom(r.status), doc |-> <<>>]
    ELSE [done |-> TRUE, tag |-> "Ok", kind |-> "none", doc |-> r.doc]

Paths == {"new", "from_file", "from_buffer"}
NotDone == [done |-> FALSE, tag |-> "none", kind |-> "none", doc |-> <<>>]

PathIdle ==
    /\ input = <<>>
    /\ pathOut = [p \in Paths |-> NotDone]

PathInit ==
    /\ input \in ValidStreams
    /\ pathOut = [p \in Paths |-> NotDone]

\* TNEFFile::new(reader) over a reader holding `input`
DecodeNew ==
    /\ ~pathOut["new"].done
    /\ \E chunk \in 1 .. MaxChunk :
         pathOut' = [pathOut EXCEPT !["new"] = Wrap(TNEFParse(chunk, input))]
    /\ UNCHANGED <<input, lifeVars, errVars, varlenVars, namedVars, attachVars, propsVars, readVars>>

\* TNEFFile::from_file(path) for a file holding `input`
DecodeFromFile ==
    /\ ~pathOut["from_file"].done
    /\ pathOut' = [pathOut EXCEPT !["from_file"] = Wrap(TNEFParse(0, input))]
    /\ UNCHANGED <<input, lifeVars, errVars, varlenVars, namedVars, attachVars, propsVars, readVars>>

\* TNEFFile::from_buffer(&mut input)
DecodeFromBuffer ==
    /\ ~pathOut["from_buffer"].done
    /\ pathOut' = [pathOut EXCEPT !["from_buffer"] = Wrap(TNEFParse(0, input))]
    /\ UNCHANGED <<input, lifeVars, errVars, varlenVars, namedVars, attachVars, propsVars, readVars>>

-----------------------------------------------------------------------------
(* Specifications *)

Init == LifeInit /\ ErrIdle /\ VarlenIdle /\ NamedIdle /\ AttachIdle /\ PropsIdle /\ ReadIdle /\ PathIdle

Next ==
    \/ New
    \/ FromFile
    \/ FromBuffer
    \/ \E d \in CallIds : DocAccessor(d)
    \/ \E d \in CallIds : Attachments(d)
    \/ \E d \in CallIds : MapiProperties(d)
    \/ \E v \in ValueIds : ValueAccessor(v)
    \/ \E d \in CallIds : DropDocument(d)
    \/ \E v \in ValueIds : DropValue(v)

Spec == Init /\ [][Next]_vars

\* the decode entry points and Document teardown alone
NextDecode ==
    \/ New
    \/ FromFile
    \/ FromBuffer
    \/ \E d \in CallIds : DropDocument(d)

SpecDecode == Init /\ [][NextDecode]_vars

InitErr == LifeInit /\ ErrInit /\ VarlenIdle /\ NamedIdle /\ AttachIdle /\ PropsIdle /\ ReadIdle /\ PathIdle

NextErr ==
    \/ Convert
    \/ ConvertBack

SpecErr == InitErr /\ [][NextErr]_vars

InitVarlen == LifeInit /\ ErrIdle /\ VarlenInit /\ NamedIdle /\ AttachIdle /\ PropsIdle /\ ReadIdle /\ PathIdle

NextVarlen ==
    \/ VecFromVarlen
    \/ StringFromVarlen

SpecVarlen == InitVarlen /\ [][NextVarlen]_vars

InitNamed == LifeInit /\ ErrIdle /\ VarlenIdle /\ NamedInit /\ AttachIdle /\ PropsIdle /\ ReadIdle /\ PathIdle

NextNamed == NamedProperties

SpecNamed == InitNamed /\ [][NextNamed]_vars

InitAttach == LifeInit /\ ErrIdle /\ VarlenIdle /\ NamedIdle /\ AttachInit /\ PropsIdle /\ ReadIdle /\ PathIdle

NextAttach == AttachmentsCall

SpecAttach == InitAttach /\ [][NextAttach]_vars

InitProps == LifeInit /\ ErrIdle /\ VarlenIdle /\ NamedIdle /\ AttachIdle /\ PropsInit /\ ReadIdle /\ PathIdle

NextProps == MapiPropertiesCall

SpecProps == InitProps /\ [][NextProps]_vars

InitRead == LifeInit /\ ErrIdle /\ VarlenIdle /\ NamedIdle /\ AttachIdle /\ PropsIdle /\ ReadInit /\ PathIdle

NextRead == IoRead

SpecRead == InitRead /\ [][NextRead]_vars

InitPaths == LifeInit /\ ErrIdle /\ VarlenIdle /\ NamedIdle /\ AttachIdle /\ PropsIdle /\ ReadIdle /\ PathInit

NextPaths ==
    \/ DecodeNew
    \/ DecodeFromFile
    \/ DecodeFromBuffer

SpecPaths == InitPaths /\ [][NextPaths]_vars

-----------------------------------------------------------------------------
(* Claims about decode and the status conversion *)

NamedKinds == <<"CannotInitData", "NotTnefStream", "ErrorReadingData", "NoKey",
                "BadChecksum", "ErrorInHandler", "UnknownProperty", "IncorrectSetup">>

\* the taxonomy's table: -1 .. -8 are the named kinds, anything else the catch-all
TableKind(n) == IF n >= -8 /\ n <= -1 THEN NamedKinds[-n] ELSE "UnknownError"

\* C1: for each entry point and every status the native parser returns, the
\* call returns Err(kind) and constructs no Document when the status is
\* negative and returns Ok(Document) otherwise; a call never does both.
C1_DecodeAllOrNothing ==
    /\ last.parsed =>
         /\ last.path \in {"new", "from_file", "from_buffer"}
         /\ last.status < 0 =>
              /\ last.tag = "Err"
              /\ last.kind = TableKind(last.status)
              /\ docState[last.call] = "none"
         /\ last.status >= 0 =>
              /\ last.tag = "Ok"
              /\ docState[last.call] # "none"
    /\ \A c \in CallIds :
         /\ returned[c] = "Err" => docState[c] = "none"
         /\ returned[c] = "Ok" <=> docState[c] # "none"
         /\ c > calls => returned[c] = "none"

\* C1 witness: a from_buffer call whose parser status was negative came back
\* Err after an earlier call came back Ok with its Document
C1_Witness ==
    /\ calls = 2
    /\ returned[1] = "Ok"
    /\ docState[1] = "live"
    /\ last.parsed /\ last.path = "from_buffer" /\ last.status < 0
    /\ returned[2] = "Err"

\* C2: the status -> TNEFError conversion is total over i32, follows the
\* table (-1 .. -8 named, every other value UnknownError), and converting a
\* kind's own discriminant yields that kind again.
C2_ConversionTotalAndClosed ==
    /\ converted # "none" =>
         /\ converted \in Kinds
         /\ converted = TableKind(code)
         /\ (code < -8 \/ code > -1) => converted = "UnknownError"
    /\ back # "none" => back = converted

\* C2 witness: a status below -8 converted to the catch-all, whose own
\* discriminant converts to the catch-all again
C2_Witness ==
    /\ code < -9
    /\ converted = "UnknownError"
    /\ back = "UnknownError"

\* C9: every resource acquired by a decode call is released -- before the
\* call returns when it fails, by Document teardown when it succeeds.
C9_AllResourcesReleased ==
    \A c \in CallIds :
        /\ returned[c] = "Err" =>
             /\ readerBox[c] # "installed"
             /\ nativeAlloc[c] # "live"
        /\ (returned[c] = "Ok" /\ docState[c] = "dropped") =>
             /\ readerBox[c] # "installed"
             /\ nativeAlloc[c] # "live"

\* C10: payload storage has a single owner: it is released exactly once, at
\* Document teardown, no accessor reads it after its release, and the values
\* attachments() / mapi_properties() return hold no reference into it.
C10_SingleOwner ==
    /\ \A c \in CallIds :
         /\ freeCount[c] <= 1
         /\ freeCount[c] = 1 <=> docState[c] = "dropped"
    /\ ~lastRead.freed
    /\ \A v \in ValueIds : values[v].state = "live" => values[v].ref = 0

-----------------------------------------------------------------------------
(* Claims about the variable-length accessors *)

\* UTF-8 by its definition: the encoding of a Unicode scalar value ...
Encode(v) ==
    IF v < 128 THEN <<v>>
    ELSE IF v < 2048 THEN <<192 + (v \div 64), 128 + (v % 64)>>
    ELSE IF v < 65536
         THEN <<224 + (v \div 4096), 128 + ((v \div 64) % 64), 128 + (v % 64)>>
    ELSE <<240 + (v \div 262144), 128 + ((v \div 4096) % 64),
           128 + ((v \div 64) % 64), 128 + (v % 64)>>

\* ... the value a 1- to 4-byte sequence would carry in its payload bits ...
Payload(c) ==
    CASE Len(c) = 1 -> c[1]
      [] Len(c) = 2 -> (c[1] % 32) * 64 + (c[2] % 64)
      [] Len(c) = 3 -> (c[1] % 16) * 4096 + (c[2] % 64) * 64 + (c[3] % 64)
      [] Len(c) = 4 -> (c[1] % 8) * 262144 + (c[2] % 64) * 4096
                       + (c[3] % 64) * 64 + (c[4] % 64)

IsScalar(v) == v >= 0 /\ v <= 1114111 /\ ~(v >= 55296 /\ v <= 57343)

\* ... so c is one encoded character iff it is the encoding of the scalar
\* value it carries
IsEncodedChar(c) == IsScalar(Payload(c)) /\ Encode(Payload(c)) = c

\* a byte sequence is text iff it splits into encoded characters
RECURSIVE IsText(_)
IsText(b) ==
    \/ Len(b) = 0
    \/ \E k \in 1 .. 4 :
         /\ k <= Len(b)
         /\ IsEncodedChar(SubSeq(b, 1, k))
         /\ IsText(SubSeq(b, k + 1, Len(b)))

FirstBytes(f) == [i \in 1 .. f.size |-> f.data[i]]

\* C4: size < 1 gives absent from both accessors; size >= 1 gives the byte
\* accessor a present copy of exactly the first `size` bytes, and the text
\* accessor those bytes exactly when they are valid UTF-8, absent otherwise,
\* never an empty or altered value.
C4_VarlenAccessors ==
    /\ vecOut.called =>
         /\ field.size < 1 => ~vecOut.some
         /\ field.size >= 1 => vecOut.some /\ vecOut.val = FirstBytes(field)
    /\ strOut.called =>
         /\ field.size < 1 => ~strOut.some
         /\ field.size >= 1 =>
              /\ strOut.some <=> IsText(FirstBytes(field))
              /\ strOut.some => strOut.val = FirstBytes(field) /\ Len(strOut.val) >= 1

\* C4 witness: a field whose first bytes are ill-formed text inside a longer
\* buffer: bytes present and exact, text absent
C4_Witness ==
    /\ field.size = 2 /\ Len(field.data) = 3
    /\ field.data[1] = 237 /\ field.data[2] = 169
    /\ vecOut.called /\ vecOut.some /\ vecOut.val = <<237, 169>>
    /\ strOut.called /\ ~strOut.some

\* C5: named_properties() is absent when the count is < 1; for a count
\* n >= 1 it is the n names in stored order when every one of the first n
\* entries is a present, valid-UTF-8 field, and absent as a whole otherwise.
C5_NamedProperties ==
    namesOut.called =>
        LET n == prop.namedproperty
            Good(i) == prop.propnames[i].size >= 1 /\ IsText(FirstBytes(prop.propnames[i]))
        IN  /\ n < 1 => ~namesOut.some
            /\ n >= 1 =>
                 /\ namesOut.some <=> \A i \in 1 .. n : Good(i)
                 /\ namesOut.some =>
                      /\ Len(namesOut.val) = n
                      /\ \A i \in 1 .. n : namesOut.val[i] = FirstBytes(prop.propnames[i])

\* C5 witness: two entries, the first a good name and the second ill-formed:
\* the whole result is absent
C5_Witness ==
    /\ prop.namedproperty = 2
    /\ prop.propnames[1] = [size |-> 1, data |-> <<65>>]
    /\ prop.propnames[2] = [size |-> 1, data |-> <<255>>]
    /\ namesOut.called /\ ~namesOut.some

-----------------------------------------------------------------------------
(* Claims about the collection accessors *)

\* the number of records linked behind starting_attach
ChainLength(t) ==
    CHOOSE k \in 0 .. MaxNodes :
        /\ Hop(t.heap, t.starting_attach.next, k) = 0
        /\ \A m \in 0 .. k - 1 : Hop(t.heap, t.starting_attach.next, m) # 0

\* C6: attachments() returns at least one element; the first is the starting
\* attachment, then come exactly the records reachable through the forward
\* link, in link order, up to the first null link: k linked records give
\* k + 1 elements, none skipped or repeated.
C6_Attachments ==
    attachOut.called =>
        LET out == attachOut.val
            k == ChainLength(tnef)
            At(i) == Hop(tnef.heap, tnef.starting_attach.next, i)
        IN  /\ Len(out) >= 1
            /\ out[1] = tnef.starting_attach
            /\ Len(out) = k + 1
            /\ \A i \in 1 .. k : out[i + 1] = tnef.heap[At(i - 1)]
            /\ \A i, j \in 0 .. k - 1 : i # j => At(i) # At(j)
            /\ out[Len(out)].next = 0

\* C6 witness: a chain of two records behind the starting attachment, not in
\* address order, came back as three elements
C6_Witness ==
    /\ attachOut.called
    /\ tnef.starting_attach.next = 2
    /\ tnef.heap[2].next = 1
    /\ tnef.heap[1].next = 0
    /\ Len(attachOut.val) = 3
    /\ attachOut.val[2] = tnef.heap[2]
    /\ attachOut.val[3] = tnef.heap[1]

\* C7: mapi_properties() returns exactly `count` entries, the i-th being the
\* i-th record of the array, in array order; with count 0 the result is empty
\* and the array is not read; no terminator value ends the iteration early.
C7_MapiProperties ==
    propsOut.called =>
        /\ Len(propsOut.val) = propList.count
        /\ \A i \in 1 .. propList.count : propsOut.val[i] = propList.properties[i]
        /\ propsOut.reads = [i \in 1 .. propList.count |-> i - 1]
        /\ propList.count = 0 => propsOut.val = <<>> /\ propsOut.reads = <<>>

\* C7 witness: three records counted, the second all-zero, all three returned
C7_Witness ==
    /\ propsOut.called
    /\ propList.count = 3
    /\ propList.properties = <<1, 0, 2>>
    /\ propsOut.val = <<1, 0, 2>>

-----------------------------------------------------------------------------
(* Claims about the byte source adapter *)

\* C8: read(byte_size, element_count) asks for byte_size * element_count
\* bytes, fills a destination of exactly that length, returns the number of
\* bytes the source delivered when its read succeeds (0 at end-of-data and
\* short counts included) and a negative value when it fails; after every
\* call the same reader is installed in the I/O struct for the next call.
C8_IoRead ==
    /\ rd.calls > 0 =>
         /\ Len(rd.dest) = rd.size * rd.count
         /\ rd.ok =>
              /\ rd.ret = Len(rd.got)
              /\ rd.ret >= 0 /\ rd.ret <= rd.size * rd.count
              /\ \A i \in 1 .. Len(rd.got) : rd.dest[i] = rd.got[i]
         /\ ~rd.ok => rd.ret < 0
    /\ ioData = ReaderAddr
    /\ boxLive

\* C8 witness: a third call in a row, after a failed one left the reader in
\* place, got a short count: 2 bytes of the 4 asked for
C8_Witness ==
    /\ rd.calls = 3 /\ rd.failed >= 1
    /\ rd.size = 4 /\ rd.count = 1
    /\ rd.ok /\ rd.ret = 2
    /\ Len(rd.dest) = 4
    /\ srcLeft # <<>>

-----------------------------------------------------------------------------
(* Claims about the construction paths *)

\* C3: on the same valid bytes each of the three construction paths succeeds
\* and the Documents they return are identical.
C3_PathsAgree ==
    \A p \in Paths :
        pathOut[p].done =>
            /\ pathOut[p].tag = "Ok"
            /\ \A q \in Paths : pathOut[q].done => pathOut[q].doc = pathOut[p].doc

====
